---------------------------- MODULE Spec2Model ----------------------------
(***************************************************************************)
(* tsfpga: the documentation build script (tools/build_docs.py) and the    *)
(* Vivado project build tests (tsfpga/test/vivado/                         *)
(* test_building_vivado_project.py).                                       *)
(*                                                                         *)
(* Text is modelled as it is in Python: a str is a sequence of code        *)
(* points, compared code point by code point.  A document is the sequence  *)
(* of its lines (every "\n" the code appends ends a line).                 *)
(***************************************************************************)
EXTENDS Integers, Sequences, FiniteSets, TLC

VARIABLES
  \* release notes (generate_release_notes)
  dir,          \* doc/release_notes: file name -> contents (lines)
  repo,         \* the git repository: tag -> committed_date (epoch seconds)
  outFile,      \* generated/sphinx/release_notes.rst
  notesResult,  \* how the last generate_release_notes call ended
  lookups,      \* the tags the last call looked up in the repository, in order
  releases,     \* what get_release_notes_files yields in the last call
  runs          \* number of generate_release_notes calls so far

notesVars == <<dir, repo, outFile, notesResult, lookups, releases, runs>>

VARIABLES
  \* the coverage badge (build_python_coverage_badge)
  coverageXml,  \* generated/python_coverage.xml: whether it exists, its line-rate
  badgeFile,    \* badges/python_coverage.svg
  badgeResult   \* how the last build_python_coverage_badge call ended

badgeVars == <<coverageXml, badgeFile, badgeResult>>

VARIABLES
  \* main
  pc,            \* the statement of main that runs next, "returned" or "raised"
  skipCoverage,  \* args.skip_coverage
  env,           \* what the external commands and files of this build do
  sphinxHtml,    \* what generated/sphinx_html holds
  trace,         \* the steps of main that have run, in order
  mainError      \* the error main ended with

mainVars == <<pc, skipCoverage, env, sphinxHtml, trace, mainError>>

VARIABLES
  \* one test case of test_building_vivado_project.py
  testCase,    \* the test function that runs
  tpc,         \* what the test runner calls next: "setUp", "test", or "done"
  topFile,     \* which top level modules/apa/test_proj_top.vhd holds
  folder,      \* the folder the test builds in: its files, the markers in its log
  buildCalls,  \* how many times the test case has invoked the build
  outcome,     \* what the external build did
  raised,      \* the error the build call raised in the test
  builtOn,     \* the folder as it was when the build was invoked
  verdict      \* "passed" or "failed"

verifyVars == <<testCase, tpc, topFile, folder, buildCalls, outcome, raised,
                builtOn, verdict>>

vars == <<notesVars, badgeVars, mainVars, verifyVars>>

-----------------------------------------------------------------------------
(* Bounds of the model *)

\* at most this many versioned release notes files in the directory
MaxFiles == 2

\* generate_release_notes is called at most this many times
MaxRuns == 2

\* the line-rate attribute is a decimal fraction of this many digits
RateDigits == 3

-----------------------------------------------------------------------------
(* Python str *)

\* a < b for two str: the first differing code point decides, a proper
\* prefix is smaller
RECURSIVE StrLess(_, _)
StrLess(a, b) ==
  IF b = <<>> THEN FALSE
  ELSE IF a = <<>> THEN TRUE
  ELSE IF Head(a) # Head(b) THEN Head(a) < Head(b)
  ELSE StrLess(Tail(a), Tail(b))

EndsWith(s, suffix) ==
  /\ Len(s) >= Len(suffix)
  /\ SubSeq(s, Len(s) - Len(suffix) + 1, Len(s)) = suffix

StartsWith(s, prefix) ==
  /\ Len(s) >= Len(prefix)
  /\ SubSeq(s, 1, Len(prefix)) = prefix

\* str.rfind("."): the last index (from 0) of ".", -1 when there is none
RECURSIVE RFindDot(_, _)
RFindDot(s, i) ==
  IF i = 0 THEN -1
  ELSE IF s[i] = 46 THEN i - 1
  ELSE RFindDot(s, i - 1)

\* str.lower() on ASCII text
Lower(s) == [i \in 1..Len(s) |-> IF s[i] >= 65 /\ s[i] <= 90 THEN s[i] + 32 ELSE s[i]]

\* str(n) for n >= 0
RECURSIVE IntToStr(_)
IntToStr(n) ==
  IF n < 10 THEN <<48 + n>>
  ELSE Append(IntToStr(n \div 10), 48 + (n % 10))

\* c * n for a one-character str c
Repeat(c, n) == [i \in 1..n |-> c]

-----------------------------------------------------------------------------
(* File names and texts the model draws its inputs from *)

\* ".rst"
RstSuffix == <<46, 114, 115, 116>>
\* "unreleased.rst"
UnreleasedNotesFile == <<117, 110, 114, 101, 108, 101, 97, 115, 101, 100, 46, 114, 115, 116>>
\* "notes.txt"
NotesTxt == <<110, 111, 116, 101, 115, 46, 116, 120, 116>>

\* "1.0.rst", "1.0.1.rst", "2.9.rst", "2.10.rst", "Unreleased.rst"
VersionedPool ==
  { <<49, 46, 48, 46, 114, 115, 116>>,
    <<49, 46, 48, 46, 49, 46, 114, 115, 116>>,
    <<50, 46, 57, 46, 114, 115, 116>>,
    <<50, 46, 49, 48, 46, 114, 115, 116>>,
    <<85, 110, 114, 101, 108, 101, 97, 115, 101, 100, 46, 114, 115, 116>> }

\* file contents: "* Fix bug" and "* Initial release\n"
BodyPool ==
  { << <<42, 32, 70, 105, 120, 32, 98, 117, 103>> >>,
    << <<42, 32, 73, 110, 105, 116, 105, 97, 108, 32, 114, 101, 108, 101, 97, 115, 101>>, <<>> >> }

\* commit times: 2020-03-07 12:00 UTC and 2021-12-15 12:00 UTC
TimestampPool == {1583582400, 1639569600}

\* a release_notes.rst left by an earlier build: "old\n"
StaleOutput == << <<111, 108, 100>> >>

-----------------------------------------------------------------------------
(* datetime.fromtimestamp, with the local time zone at UTC *)

\* the civil date of a day number counted from 1970-01-01
CivilFromDays(days) ==
  LET z   == days + 719468
      era == z \div 146097
      doe == z - era * 146097
      yoe == (doe - doe \div 1460 + doe \div 36524 - doe \div 146096) \div 365
      doy == doe - (365 * yoe + yoe \div 4 - yoe \div 100)
      mp  == (5 * doy + 2) \div 153
      d   == doy - (153 * mp + 2) \div 5 + 1
      m   == IF mp < 10 THEN mp + 3 ELSE mp - 9
      y   == yoe + era * 400 + (IF m <= 2 THEN 1 ELSE 0)
  IN [year |-> y, month |-> m, day |-> d]

FromTimestamp(timestamp) == CivilFromDays(timestamp \div 86400)

\* strftime("%B") in the C locale
MonthName(m) ==
  << <<74, 97, 110, 117, 97, 114, 121>>,
     <<70, 101, 98, 114, 117, 97, 114, 121>>,
     <<77, 97, 114, 99, 104>>,
     <<65, 112, 114, 105, 108>>,
     <<77, 97, 121>>,
     <<74, 117, 110, 101>>,
     <<74, 117, 108, 121>>,
     <<65, 117, 103, 117, 115, 116>>,
     <<83, 101, 112, 116, 101, 109, 98, 101, 114>>,
     <<79, 99, 116, 111, 98, 101, 114>>,
     <<78, 111, 118, 101, 109, 98, 101, 114>>,
     <<68, 101, 99, 101, 109, 98, 101, 114>> >>[m]

-----------------------------------------------------------------------------
(* class Release *)

\* "Unreleased", "master", "YYYY-MM-DD", "unreleased", "v"
UnreleasedVersion == <<85, 110, 114, 101, 108, 101, 97, 115, 101, 100>>
MasterTag == <<109, 97, 115, 116, 101, 114>>
PlaceholderDate == <<89, 89, 89, 89, 45, 77, 77, 45, 68, 68>>
UnreleasedStem == <<117, 110, 114, 101, 108, 101, 97, 115, 101, 100>>
TagPrefix == <<118>>

\* pathlib's PurePath.stem: the name without its last suffix
Stem(name) ==
  LET i == RFindDot(name, Len(name))
  IN IF 0 < i /\ i < Len(name) - 1 THEN SubSeq(name, 1, i) ELSE name

\* a mutant of get_git_date_from_tag: a tag that is not in the repository is
\* given the placeholder date instead of raising
GetGitDateFromTagSwallow(tag, repository) ==
  IF tag \notin DOMAIN repository
  THEN [ok |-> TRUE, date |-> PlaceholderDate]
  ELSE LET time == FromTimestamp(repository[tag])
       IN [ok |-> TRUE,
           date |-> Lower(IntToStr(time.day) \o <<32>> \o MonthName(time.month)
                          \o <<32>> \o IntToStr(time.year))]

\* Release.get_git_date_from_tag: the lookup raises when the tag is unknown
GetGitDateFromTag(tag, repository) ==
  IF tag \notin DOMAIN repository
  THEN [ok |-> FALSE, date |-> <<>>]
  ELSE LET time == FromTimestamp(repository[tag])
       IN [ok |-> TRUE,
           date |-> Lower(IntToStr(time.day) \o <<32>> \o MonthName(time.month)
                          \o <<32>> \o IntToStr(time.year))]

\* Release.__init__: ok is FALSE when the tag lookup raised; looked_up is the
\* tag it asked the repository for, if any
Release(release_notes_file, repository) ==
  LET version == Stem(release_notes_file)
  IN IF version = UnreleasedStem
     THEN [ok |-> TRUE, release_notes_file |-> release_notes_file,
           version |-> UnreleasedVersion, git_tag |-> MasterTag,
           date |-> PlaceholderDate, looked_up |-> <<>>]
     ELSE LET git_tag == TagPrefix \o version
              found == GetGitDateFromTag(git_tag, repository)
          IN [ok |-> found.ok, release_notes_file |-> release_notes_file,
              version |-> version, git_tag |-> git_tag,
              date |-> found.date, looked_up |-> <<git_tag>>]

-----------------------------------------------------------------------------
(* get_release_notes_files *)

\* Path.glob("*.rst") on the directory: the names that end in ".rst"
Glob(directory) == {name \in DOMAIN directory : EndsWith(name, RstSuffix)}

\* the orders in which the glob may enumerate a set of files
Enumerations(files) ==
  {order \in [1..Cardinality(files) -> files] :
     \A i, j \in 1..Cardinality(files) : i # j => order[i] # order[j]}

\* a < b for two paths of one directory: their names compare as str
PathLess(a, b) == StrLess(a, b)

RECURSIVE InsertDescending(_, _)
InsertDescending(path, sorted) ==
  IF sorted = <<>> THEN <<path>>
  ELSE IF PathLess(Head(sorted), path) THEN <<path>> \o sorted
  ELSE <<Head(sorted)>> \o InsertDescending(path, Tail(sorted))

\* a mutant of release_notes.sort(reverse=True): the list is left as globbed
SortReverseOmitted(release_notes) == release_notes

\* release_notes.sort(reverse=True)
RECURSIVE SortReverse(_)
SortReverse(release_notes) ==
  IF release_notes = <<>> THEN <<>>
  ELSE InsertDescending(Head(release_notes), SortReverse(Tail(release_notes)))

\* the release_notes list: the globbed files except unreleased.rst, sorted,
\* with unreleased.rst inserted at index 0
ReleaseNotesList(order) ==
  <<UnreleasedNotesFile>>
    \o SortReverse(SelectSeq(order, LAMBDA f : ~(f = UnreleasedNotesFile)))

\* [Release(f) for f in release_notes]: the first lookup that raises ends it
RECURSIVE Releases(_, _)
Releases(release_notes, repository) ==
  IF release_notes = <<>> THEN [ok |-> TRUE, list |-> <<>>, lookups |-> <<>>]
  ELSE LET release == Release(Head(release_notes), repository)
       IN IF ~release.ok
          THEN [ok |-> FALSE, list |-> <<>>, lookups |-> release.looked_up]
          ELSE LET rest == Releases(Tail(release_notes), repository)
               IN [ok |-> rest.ok,
                   list |-> IF rest.ok THEN <<release>> \o rest.list ELSE <<>>,
                   lookups |-> release.looked_up \o rest.lookups]

NoTag == [is_none |-> TRUE, tag |-> <<>>]
SomeTag(tag) == [is_none |-> FALSE, tag |-> tag]

\* a mutant of the previous-release computation: the last entry is given its
\* own tag instead of None
PreviousReleaseGitTagNeverNone(list, idx) ==
  IF idx = Len(list) THEN SomeTag(list[idx].git_tag)
  ELSE SomeTag(list[idx + 1].git_tag)

\* previous_release_git_tag of the entry at position idx (from 1)
PreviousReleaseGitTag(list, idx) ==
  IF idx = Len(list) THEN NoTag
  ELSE SomeTag(list[idx + 1].git_tag)

\* get_release_notes_files: what it yields, or the lookup error
GetReleaseNotesFiles(order, repository) ==
  LET built == Releases(ReleaseNotesList(order), repository)
  IN [ok |-> built.ok,
      lookups |-> built.lookups,
      yielded |-> [idx \in 1..Len(built.list) |->
                     [release |-> built.list[idx],
                      previous_release_git_tag |->
                        PreviousReleaseGitTag(built.list, idx)]]]

-----------------------------------------------------------------------------
(* generate_release_notes *)

\* "`Changes since previous release <" and ">`__"
LinkOpen == <<96, 67, 104, 97, 110, 103, 101, 115, 32, 115, 105, 110, 99, 101, 32, 112, 114, 101, 118, 105, 111, 117, 115, 32, 114, 101, 108, 101, 97, 115, 101, 32, 60>>
LinkClose == <<62, 96, 95, 95>>
\* "https://gitlab.com/tsfpga/tsfpga/-/compare/"
CompareUrl == <<104, 116, 116, 112, 115, 58, 47, 47, 103, 105, 116, 108, 97, 98, 46, 99, 111, 109, 47, 116, 115, 102, 112, 103, 97, 47, 116, 115, 102, 112, 103, 97, 47, 45, 47, 99, 111, 109, 112, 97, 114, 101, 47>>

\* tsfpga.system_utils.read_file: the contents, or an error for a missing file
ReadFile(file, directory) ==
  IF file \in DOMAIN directory
  THEN [ok |-> TRUE, text |-> directory[file]]
  ELSE [ok |-> FALSE, text |-> <<>>]

Heading(release) == release.version \o <<32, 40>> \o release.date \o <<41>>

DiffLink(previous_release_git_tag, git_tag) ==
  LinkOpen \o CompareUrl \o previous_release_git_tag \o <<46, 46, 46>> \o git_tag
    \o LinkClose

\* the lines one pass of the loop body adds to rst
Section(entry, text) ==
  LET release == entry.release
      heading == Heading(release)
  IN <<heading, Repeat(45, Len(heading)), <<>>>>
       \o (IF ~entry.previous_release_git_tag.is_none
           THEN <<DiffLink(entry.previous_release_git_tag.tag, release.git_tag)>>
           ELSE <<>>)
       \o << <<>> >>
       \o text

\* the loop of generate_release_notes over the yielded entries: rst, or the
\* error of the first file that cannot be read; taken counts the entries
\* the loop has taken from the generator when it ends
RECURSIVE Assemble(_, _)
Assemble(yielded, directory) ==
  IF yielded = <<>> THEN [ok |-> TRUE, rst |-> <<>>, taken |-> 0]
  ELSE LET read == ReadFile(Head(yielded).release.release_notes_file, directory)
       IN IF ~read.ok THEN [ok |-> FALSE, rst |-> <<>>, taken |-> 1]
          ELSE LET rest == Assemble(Tail(yielded), directory)
               IN [ok |-> rest.ok,
                   rst |-> IF rest.ok
                           THEN Section(Head(yielded), read.text) \o rest.rst
                           ELSE <<>>,
                   taken |-> 1 + rest.taken]

Absent == [exists |-> FALSE, lines |-> <<>>]
FileWith(lines) == [exists |-> TRUE, lines |-> lines]

\* the end of generate_release_notes: create_file is its last statement, and
\* an error before it leaves release_notes.rst as it was.  The Release list is
\* built, with its lookups, before the generator yields; a read_file error
\* leaves the generator where the loop stopped.
CreateReleaseNotesFile(got, doc, file) ==
  IF ~got.ok
  THEN [result |-> "lookup_error", file |-> file,
        lookups |-> got.lookups, yielded |-> <<>>]
  ELSE IF ~doc.ok
  THEN [result |-> "file_not_found", file |-> file,
        lookups |-> got.lookups, yielded |-> SubSeq(got.yielded, 1, doc.taken)]
  ELSE [result |-> "ok", file |-> FileWith(doc.rst),
        lookups |-> got.lookups, yielded |-> got.yielded]

\* the loop over what get_release_notes_files yields, then create_file
AssembleAndCreate(got, directory, file) ==
  CreateReleaseNotesFile(got, Assemble(got.yielded, directory), file)

\* generate_release_notes as a function of what it reads: how it ends, and
\* release_notes.rst afterwards
GenerateReleaseNotesResult(order, directory, repository, file) ==
  AssembleAndCreate(GetReleaseNotesFiles(order, repository), directory, file)

\* one call of generate_release_notes; the glob enumerates in any order
GenerateReleaseNotes ==
  /\ runs < MaxRuns
  /\ \E order \in Enumerations(Glob(dir)) :
       \E r \in {GenerateReleaseNotesResult(order, dir, repo, outFile)} :
          /\ notesResult' = r.result
          /\ outFile' = r.file
          /\ lookups' = r.lookups
          /\ releases' = r.yielded
  /\ runs' = runs + 1
  /\ UNCHANGED <<dir, repo>>


-----------------------------------------------------------------------------
(* Python float: IEEE 754 binary64, round to nearest, ties to even.         *)
(* A value is kept exactly, as an integer part and the bits after the       *)
(* binary point.                                                            *)

\* significand bits of a binary64
MantissaBits == 53

RECURSIVE Pow10(_)
Pow10(n) == IF n = 0 THEN 1 ELSE 10 * Pow10(n - 1)

RECURSIVE Pow2(_)
Pow2(n) == IF n = 0 THEN 1 ELSE 2 * Pow2(n - 1)

\* 2^n modulo den, by squaring
RECURSIVE Pow2Mod(_, _)
Pow2Mod(n, den) ==
  IF n = 0 THEN 1 % den
  ELSE LET half == Pow2Mod(n \div 2, den)
       IN (((half * half) % den) * (IF n % 2 = 1 THEN 2 ELSE 1)) % den

RECURSIVE BitLength(_)
BitLength(n) == IF n = 0 THEN 0 ELSE 1 + BitLength(n \div 2)

\* the number of 0 bits before the first 1
LeadingZeros(bits) ==
  LET ones == {i \in 1..Len(bits) : bits[i] = 1}
  IN IF ones = {} THEN Len(bits)
     ELSE (CHOOSE i \in ones : \A j \in ones : i <= j) - 1

\* the integer a short run of bits spells
RECURSIVE BitsValue(_)
BitsValue(bits) ==
  IF bits = <<>> THEN 0
  ELSE 2 * BitsValue(SubSeq(bits, 1, Len(bits) - 1)) + bits[Len(bits)]

\* v < 2^width as `width` bits
IntBits(v, width) == [j \in 1..width |-> (v \div Pow2(width - j)) % 2]

\* bits + one unit in the last place: the last 0 becomes 1 and the 1s after
\* it become 0; without a 0 the carry leaves the bits
AddOne(bits) ==
  LET zeros == {i \in 1..Len(bits) : bits[i] = 0}
      last  == IF zeros = {} THEN 0 ELSE CHOOSE i \in zeros : \A j \in zeros : j <= i
  IN [carry |-> IF last = 0 THEN 1 ELSE 0,
      bits  |-> [i \in 1..Len(bits) |->
                   IF i < last THEN bits[i] ELSE IF i = last THEN 1 ELSE 0]]

\* x cut to `keep` bits after the point, rounded to nearest, ties to even
RoundAt(x, keep) ==
  IF keep >= Len(x.frac) THEN x
  ELSE LET guard  == x.frac[keep + 1]
           sticky == \E i \in (keep + 2)..Len(x.frac) : x.frac[i] = 1
           lsb    == IF keep > 0 THEN x.frac[keep] ELSE x.int % 2
           kept   == SubSeq(x.frac, 1, keep)
       IN IF guard = 1 /\ (sticky \/ lsb = 1)
          THEN LET up == AddOne(kept)
               IN [int |-> x.int + up.carry, frac |-> up.bits]
          ELSE [int |-> x.int, frac |-> kept]

\* x rounded to the nearest binary64
RoundToDouble(x) ==
  RoundAt(x, IF x.int > 0 THEN MantissaBits - BitLength(x.int)
             ELSE LeadingZeros(x.frac) + MantissaBits)

\* what is left of num after i bits of the binary expansion of num / den
Remainder(num, den, i) == (num * Pow2Mod(i, den)) % den

\* float("num/den" written as a decimal), for 0 <= num <= den: the first
\* MantissaBits significant bits of the expansion, rounded by what is left
Float(num, den) ==
  IF num = den THEN [int |-> 1, frac |-> <<>>]
  ELSE IF num = 0 THEN [int |-> 0, frac |-> <<>>]
  ELSE LET zeros == CHOOSE z \in 0..BitLength(den) :
                      num * Pow2(z) < den /\ num * Pow2(z + 1) >= den
           n     == zeros + MantissaBits
           bits  == [i \in 1..n |->
                       IF 2 * Remainder(num, den, i - 1) >= den THEN 1 ELSE 0]
           rem   == Remainder(num, den, n)
       IN IF 2 * rem > den \/ (2 * rem = den /\ bits[n] = 1)
          THEN LET up == AddOne(bits) IN [int |-> up.carry, frac |-> up.bits]
          ELSE [int |-> 0, frac |-> bits]

\* the exact product of the bits after the point and m, sixteen bits at a
\* time from the last, with the carry into the units
RECURSIVE MulFrac(_, _)
MulFrac(bits, m) ==
  IF bits = <<>> THEN [carry |-> 0, bits |-> <<>>]
  ELSE LET n     == Len(bits)
           width == IF n % 16 = 0 THEN 16 ELSE n % 16
           low   == MulFrac(SubSeq(bits, width + 1, n), m)
           t     == m * BitsValue(SubSeq(bits, 1, width)) + low.carry
       IN [carry |-> t \div Pow2(width),
           bits  |-> IntBits(t % Pow2(width), width) \o low.bits]

\* x * m for a float x and a small integer m
FloatTimes(x, m) ==
  LET product == MulFrac(x.frac, m)
  IN RoundToDouble([int |-> m * x.int + product.carry, frac |-> product.bits])

\* round(x): the nearest integer, ties to even
PyRound(x) == RoundAt(x, 0).int

-----------------------------------------------------------------------------
(* build_python_coverage_badge *)

RateDenominator == Pow10(RateDigits)

\* int(round(float(xml_root.attrib["line-rate"]) * 100))
LineCoverage(line_rate) == PyRound(FloatTimes(Float(line_rate, RateDenominator), 100))

\* a mutant of the colour choice: 80 itself counts as high
BadgeColorAtLeast(line_coverage) == IF line_coverage >= 80 THEN "green" ELSE "red"

\* color = "green" if line_coverage > 80 else "red"
BadgeColor(line_coverage) == IF line_coverage > 80 THEN "green" ELSE "red"

\* assert line_coverage > 50
CoverageHighEnough(line_coverage) == line_coverage > 50

NoBadge == [exists |-> FALSE, right_text |-> <<>>, right_color |-> ""]

\* build_python_coverage_badge as a function of what it reads: how it ends,
\* and python_coverage.svg afterwards
BuildPythonCoverageBadgeResult(xml, file) ==
  IF ~xml.exists
  THEN [result |-> "AssertionError: Run pytest with coverage", file |-> file]
  ELSE LET line_coverage == LineCoverage(xml.line_rate)
       IN IF ~CoverageHighEnough(line_coverage)
          THEN [result |-> "AssertionError: Coverage is way low", file |-> file]
          ELSE [result |-> "ok",
                file |-> [exists |-> TRUE,
                          right_text |-> IntToStr(line_coverage) \o <<37>>,
                          right_color |-> BadgeColor(line_coverage)]]

BuildPythonCoverageBadge ==
  /\ badgeResult = "none"
  /\ LET r == BuildPythonCoverageBadgeResult(coverageXml, badgeFile)
     IN /\ badgeResult' = r.result
        /\ badgeFile' = r.file
  /\ UNCHANGED coverageXml

\* the coverage reports: none, or one with any line-rate of RateDigits digits
CoverageReports ==
  {[exists |-> FALSE, line_rate |-> 0]}
    \cup {[exists |-> TRUE, line_rate |-> k] : k \in 0..RateDenominator}


-----------------------------------------------------------------------------
(* main *)

\* a mutant of the command calls: the exit code is not checked
CheckCallIgnoresExitCode(exit_code) == "ok"

\* subprocess.check_call: a nonzero exit code raises
CheckCall(exit_code) == IF exit_code = 0 THEN "ok" ELSE "CalledProcessError"

\* a mutant of main: the flag is not looked at
NeverReturnsBeforeCoverage(skip_coverage) == FALSE

\* if args.skip_coverage: return
ReturnsBeforeCoverage(skip_coverage) == skip_coverage

\* the end of a step of main: on to the next statement, or out with the error
Continue(step, result, next) ==
  /\ trace' = Append(trace, step)
  /\ IF result = "ok"
     THEN pc' = next /\ mainError' = mainError
     ELSE pc' = "raised" /\ mainError' = result

\* delete(SPHINX_HTML), after arguments()
MainDelete ==
  /\ pc = "delete"
  /\ sphinxHtml' = {}
  /\ badgeFile' = NoBadge
  /\ Continue("delete", "ok", "generate_registers")
  /\ UNCHANGED <<notesVars, coverageXml, badgeResult, skipCoverage, env,
               verifyVars>>

\* generate_registers()
MainGenerateRegisters ==
  /\ pc = "generate_registers"
  /\ Continue("generate_registers", CheckCall(env.registers_exit),
              "generate_release_notes")
  /\ UNCHANGED <<notesVars, badgeVars, skipCoverage, env, sphinxHtml,
               verifyVars>>

\* generate_release_notes()
MainGenerateReleaseNotes ==
  /\ pc = "generate_release_notes"
  /\ \E order \in Enumerations(Glob(dir)) :
       \E r \in {GenerateReleaseNotesResult(order, dir, repo, outFile)} :
          /\ notesResult' = r.result
          /\ outFile' = r.file
          /\ lookups' = r.lookups
          /\ releases' = r.yielded
          /\ Continue("generate_release_notes", r.result, "generate_apidoc")
  /\ runs' = runs + 1
  /\ UNCHANGED <<dir, repo, badgeVars, skipCoverage, env, sphinxHtml,
               verifyVars>>

\* generate_apidoc()
MainGenerateApidoc ==
  /\ pc = "generate_apidoc"
  /\ Continue("generate_apidoc", CheckCall(env.apidoc_exit), "generate_sphinx_index")
  /\ UNCHANGED <<notesVars, badgeVars, skipCoverage, env, sphinxHtml,
               verifyVars>>

\* generate_sphinx_index(): get_readme_rst(verify=True) checks readme.rst
MainGenerateSphinxIndex ==
  /\ pc = "generate_sphinx_index"
  /\ Continue("generate_sphinx_index",
              IF env.readme_identical THEN "ok" ELSE "readme.rst differs",
              "build_sphinx")
  /\ UNCHANGED <<notesVars, badgeVars, skipCoverage, env, sphinxHtml,
               verifyVars>>

\* build_sphinx(): the sphinx command, which leaves index.html or not whatever
\* its exit code, then assert index_html.exists()
BuildSphinxResult(sphinx_exit, index_html_exists) ==
  IF CheckCall(sphinx_exit) # "ok" THEN CheckCall(sphinx_exit)
  ELSE IF ~index_html_exists THEN "AssertionError: index.html"
  ELSE "ok"

MainBuildSphinx ==
  /\ pc = "build_sphinx"
  /\ sphinxHtml' = IF env.index_html_exists
                   THEN sphinxHtml \cup {"index.html"} ELSE sphinxHtml
  /\ Continue("build_sphinx",
              BuildSphinxResult(env.sphinx_exit, env.index_html_exists),
              "build_information_badges")
  /\ UNCHANGED <<notesVars, badgeVars, skipCoverage, env,
               verifyVars>>

\* create_directory(SPHINX_HTML / "badges"); build_information_badges();
\* then the skip_coverage test
MainBuildInformationBadges ==
  /\ pc = "build_information_badges"
  /\ sphinxHtml' = sphinxHtml \cup {"badges", "badges/pip_install.svg",
                                    "badges/license.svg", "badges/gitlab.svg",
                                    "badges/website.svg"}
  /\ Continue("build_information_badges", "ok",
              IF ReturnsBeforeCoverage(skipCoverage) THEN "returned"
              ELSE "build_python_coverage_badge")
  /\ UNCHANGED <<notesVars, badgeVars, skipCoverage, env,
               verifyVars>>

\* build_python_coverage_badge(badges_path)
MainBuildPythonCoverageBadge ==
  /\ pc = "build_python_coverage_badge"
  /\ LET r == BuildPythonCoverageBadgeResult(coverageXml, badgeFile)
     IN /\ badgeResult' = r.result
        /\ badgeFile' = r.file
        /\ Continue("build_python_coverage_badge", r.result,
                    "copy_python_coverage_to_html_output")
  /\ UNCHANGED <<notesVars, coverageXml, skipCoverage, env, sphinxHtml,
               verifyVars>>

\* copy_python_coverage_to_html_output(): assert the report exists, copytree
CopyPythonCoverageResult(coverage_html_exists) ==
  IF coverage_html_exists THEN "ok"
  ELSE "AssertionError: Run pytest with coverage"

MainCopyPythonCoverage ==
  /\ pc = "copy_python_coverage_to_html_output"
  /\ sphinxHtml' = IF env.coverage_html_exists
                   THEN sphinxHtml \cup {"python_coverage_html"} ELSE sphinxHtml
  /\ Continue("copy_python_coverage_to_html_output",
              CopyPythonCoverageResult(env.coverage_html_exists), "returned")
  /\ UNCHANGED <<notesVars, badgeVars, skipCoverage, env,
               verifyVars>>

-----------------------------------------------------------------------------
(* test_building_vivado_project.py *)

\* the files the tests look for, relative to the folder the build writes to
BitFile == "test_proj.bit"
BinFile == "test_proj.bin"
SynthUtilization == "test_proj.runs/synth_1/hierarchical_utilization.rpt"
ImplUtilization == "test_proj.runs/impl_1/hierarchical_utilization.rpt"
ClockInteraction == "test_proj.runs/synth_1/clock_interaction.rpt"
TimingSummary == "test_proj.runs/synth_1/timing_summary.rpt"
ImplTimingSummary == "test_proj.runs/impl_1/timing_summary.rpt"
Artyz7Bit == "artyz7.bit"
Artyz7Bin == "artyz7.bin"
Artyz7Hdf == "artyz7.hdf"

ProjectFilePool == {BitFile, BinFile, SynthUtilization, ImplUtilization,
                    ClockInteraction, TimingSummary, ImplTimingSummary}
Artyz7FilePool == {Artyz7Bit, Artyz7Bin, Artyz7Hdf}

\* the strings the tests look for in vivado.log
SynthFailedMarker == "\nERROR: Run synth_1 failed."
ClockCrossingMarker == "\nERROR: Unhandled clock crossing in synth_1 run."
TimingMarker == "\nERROR: Timing not OK after implementation run."
Markers == {SynthFailedMarker, ClockCrossingMarker, TimingMarker}

\* the test functions of the file
BuildingArtyz7Project == "test_building_artyz7_project"
CreateProject == "test_create_project"
SynthProject == "test_synth_project"
SynthShouldFail == "test_synth_should_fail_if_source_code_does_not_compile"
ClockCrossingShouldFail == "test_synth_with_unhandled_clock_crossing_should_fail"
BuildProject == "test_build_project"
BadTimingShouldFail == "test_build_with_bad_timing_should_fail"

\* the methods of TestBasicProject, which setUp runs before
BasicProjectTests == {CreateProject, SynthProject, SynthShouldFail,
                      ClockCrossingShouldFail, BuildProject, BadTimingShouldFail}
TestCases == {BuildingArtyz7Project} \cup BasicProjectTests

EmptyFolder == [files |-> {}, log |-> {}]

\* what proj.create(project_folder) leaves in a folder that did not exist
CreatedProject == [files |-> {"test_proj.xpr"}, log |-> {}]

\* a mutant of setUp: the project folder of an earlier run is not deleted
SetUpKeepsProjectFolder(project_folder) ==
  [files |-> project_folder.files \cup CreatedProject.files,
   log   |-> project_folder.log]

\* setUp: delete(self.project_folder), then self.proj.create(self.project_folder)
SetUpProjectFolder(project_folder) == CreatedProject

\* what the external build can do: any exit code, any of the markers in its
\* log, any of the files left
BuildOutcomes(pool) ==
  [exit_code : {0, 1}, markers : SUBSET Markers, artifacts : SUBSET pool]

NoOutcome == [exit_code |-> 0, markers |-> {}, artifacts |-> {}]
NotBuilt == [built |-> FALSE, files |-> {}, log |-> {}]
BuiltOn(build_folder) ==
  [built |-> TRUE, files |-> build_folder.files, log |-> build_folder.log]

\* run_command: a nonzero exit code of the command raises CalledProcessError
RunCommand(exit_code) == IF exit_code = 0 THEN "none" ELSE "CalledProcessError"

\* the folder after the build: the files it leaves, and its vivado.log
Build(build_folder, o) ==
  [files |-> build_folder.files \cup o.artifacts, log |-> o.markers]

\* file_contains_string(self.log_file, marker)
FileContainsString(log, marker) == marker \in log

\* test_building_artyz7_project: run_command returns, the three files exist
BuildingArtyz7ProjectPasses(error, tmp_path) ==
  /\ error = "none"
  /\ Artyz7Bit \in tmp_path.files
  /\ Artyz7Bin \in tmp_path.files
  /\ Artyz7Hdf \in tmp_path.files

\* test_synth_project
SynthProjectPasses(error, project_folder) ==
  /\ error = "none"
  /\ SynthUtilization \in project_folder.files

\* test_synth_should_fail_if_source_code_does_not_compile
SynthShouldFailPasses(error, project_folder) ==
  /\ error = "CalledProcessError"
  /\ FileContainsString(project_folder.log, SynthFailedMarker)

\* a mutant of the clock crossing test: it looks for the marker of the
\* test before it
ClockCrossingLooksForSynthFailed(error, project_folder) ==
  /\ error = "CalledProcessError"
  /\ FileContainsString(project_folder.log, SynthFailedMarker)
  /\ ClockInteraction \in project_folder.files
  /\ TimingSummary \in project_folder.files

\* test_synth_with_unhandled_clock_crossing_should_fail
ClockCrossingShouldFailPasses(error, project_folder) ==
  /\ error = "CalledProcessError"
  /\ FileContainsString(project_folder.log, ClockCrossingMarker)
  /\ ClockInteraction \in project_folder.files
  /\ TimingSummary \in project_folder.files

\* test_build_project
BuildProjectPasses(error, project_folder) ==
  /\ error = "none"
  /\ BitFile \in project_folder.files
  /\ BinFile \in project_folder.files
  /\ ImplUtilization \in project_folder.files

\* test_build_with_bad_timing_should_fail
BadTimingShouldFailPasses(error, project_folder) ==
  /\ error = "CalledProcessError"
  /\ FileContainsString(project_folder.log, TimingMarker)
  /\ ImplTimingSummary \in project_folder.files

Verdict(passes) == IF passes THEN "passed" ELSE "failed"

\* the one build call of a test function, on the folder as it is
InvokeBuild(o) ==
  /\ buildCalls' = buildCalls + 1
  /\ builtOn' = BuiltOn(folder)
  /\ outcome' = o
  /\ raised' = RunCommand(o.exit_code)
  /\ folder' = Build(folder, o)

\* TestBasicProject.setUp
SetUp ==
  /\ tpc = "setUp"
  /\ folder' = SetUpProjectFolder(folder)
  /\ topFile' = "resync"
  /\ tpc' = "test"
  /\ UNCHANGED <<testCase, buildCalls, outcome, raised, builtOn, verdict>>

TestBuildingArtyz7Project ==
  /\ tpc = "test" /\ testCase = BuildingArtyz7Project
  /\ \E o \in BuildOutcomes(Artyz7FilePool) :
       /\ InvokeBuild(o)
       /\ verdict' = Verdict(BuildingArtyz7ProjectPasses(RunCommand(o.exit_code),
                                                         Build(folder, o)))
  /\ tpc' = "done"
  /\ UNCHANGED <<testCase, topFile>>

\* test_create_project: pass
TestCreateProject ==
  /\ tpc = "test" /\ testCase = CreateProject
  /\ verdict' = "passed"
  /\ tpc' = "done"
  /\ UNCHANGED <<testCase, topFile, folder, buildCalls, outcome, raised, builtOn>>

TestSynthProject ==
  /\ tpc = "test" /\ testCase = SynthProject
  /\ \E o \in BuildOutcomes(ProjectFilePool) :
       /\ InvokeBuild(o)
       /\ verdict' = Verdict(SynthProjectPasses(RunCommand(o.exit_code),
                                                Build(folder, o)))
  /\ tpc' = "done"
  /\ UNCHANGED <<testCase, topFile>>

TestSynthShouldFail ==
  /\ tpc = "test" /\ testCase = SynthShouldFail
  /\ topFile' = "garbage"
  /\ \E o \in BuildOutcomes(ProjectFilePool) :
       /\ InvokeBuild(o)
       /\ verdict' = Verdict(SynthShouldFailPasses(RunCommand(o.exit_code),
                                                   Build(folder, o)))
  /\ tpc' = "done"
  /\ UNCHANGED testCase

TestClockCrossingShouldFail ==
  /\ tpc = "test" /\ testCase = ClockCrossingShouldFail
  /\ topFile' = "unhandled_clock_crossing"
  /\ \E o \in BuildOutcomes(ProjectFilePool) :
       /\ InvokeBuild(o)
       /\ verdict' = Verdict(ClockCrossingShouldFailPasses(RunCommand(o.exit_code),
                                                           Build(folder, o)))
  /\ tpc' = "done"
  /\ UNCHANGED testCase

TestBuildProject ==
  /\ tpc = "test" /\ testCase = BuildProject
  /\ \E o \in BuildOutcomes(ProjectFilePool) :
       /\ InvokeBuild(o)
       /\ verdict' = Verdict(BuildProjectPasses(RunCommand(o.exit_code),
                                                Build(folder, o)))
  /\ tpc' = "done"
  /\ UNCHANGED <<testCase, topFile>>

TestBadTimingShouldFail ==
  /\ tpc = "test" /\ testCase = BadTimingShouldFail
  /\ topFile' = "bad_timing"
  /\ \E o \in BuildOutcomes(ProjectFilePool) :
       /\ InvokeBuild(o)
       /\ verdict' = Verdict(BadTimingShouldFailPasses(RunCommand(o.exit_code),
                                                       Build(folder, o)))
  /\ tpc' = "done"
  /\ UNCHANGED testCase

-----------------------------------------------------------------------------
(* The release notes specification *)

\* "v" + stem, the tag Release gives a versioned file
TagOf(file) == TagPrefix \o Stem(file)

\* the directories: unreleased.rst or not, up to MaxFiles versioned files,
\* notes.txt or not, each file with contents of BodyPool
Directories ==
  UNION { [names -> BodyPool] :
          names \in { v \cup u \cup t :
                      v \in {w \in SUBSET VersionedPool : Cardinality(w) <= MaxFiles},
                      u \in {{}, {UnreleasedNotesFile}},
                      t \in {{}, {NotesTxt}} } }

\* the repositories: any of the directory's versions is tagged or not
Repositories(directory) ==
  UNION { [tags -> TimestampPool] :
          tags \in SUBSET {TagOf(f) : f \in DOMAIN directory \cap VersionedPool} }

IdleNotes ==
  /\ dir = [f \in {} |-> <<>>]
  /\ repo = [t \in {} |-> 0]
  /\ outFile = Absent
  /\ notesResult = "none"
  /\ lookups = <<>>
  /\ releases = <<>>
  /\ runs = 0

IdleBadge ==
  /\ coverageXml = [exists |-> FALSE, line_rate |-> 0]
  /\ badgeFile = NoBadge
  /\ badgeResult = "none"

IdleMain ==
  /\ pc = "idle"
  /\ skipCoverage = FALSE
  /\ env = [registers_exit |-> 0, apidoc_exit |-> 0, readme_identical |-> TRUE,
            sphinx_exit |-> 0, index_html_exists |-> TRUE,
            coverage_html_exists |-> TRUE]
  /\ sphinxHtml = {}
  /\ trace = <<>>
  /\ mainError = "none"

IdleVerify ==
  /\ testCase = "none"
  /\ tpc = "idle"
  /\ topFile = "none"
  /\ folder = EmptyFolder
  /\ buildCalls = 0
  /\ outcome = NoOutcome
  /\ raised = "none"
  /\ builtOn = NotBuilt
  /\ verdict = "none"

InitNotes ==
  /\ IdleBadge
  /\ IdleMain
  /\ IdleVerify
  /\ dir \in Directories
  /\ repo \in Repositories(dir)
  /\ outFile \in {Absent, FileWith(StaleOutput)}
  /\ notesResult = "none"
  /\ lookups = <<>>
  /\ releases = <<>>
  /\ runs = 0

NextNotes == GenerateReleaseNotes /\ UNCHANGED <<badgeVars, mainVars, verifyVars>>

SpecNotes == InitNotes /\ [][NextNotes]_vars

-----------------------------------------------------------------------------
(* The coverage badge specification *)

InitBadge ==
  /\ IdleNotes
  /\ IdleMain
  /\ IdleVerify
  /\ coverageXml \in CoverageReports
  /\ badgeFile = NoBadge
  /\ badgeResult = "none"

NextBadge == BuildPythonCoverageBadge /\ UNCHANGED <<notesVars, mainVars, verifyVars>>

SpecBadge == InitBadge /\ [][NextBadge]_vars

-----------------------------------------------------------------------------
(* The specification of main *)

\* "1.0.rst" and the contents "* Fix bug"
FirstRelease == <<49, 46, 48, 46, 114, 115, 116>>
FixBug == << <<42, 32, 70, 105, 120, 32, 98, 117, 103>> >>

\* the release notes directories a build of the documentation is run on
MainDirectories ==
  {d \in Directories :
     /\ DOMAIN d \subseteq {UnreleasedNotesFile, FirstRelease}
     /\ \A f \in DOMAIN d : d[f] = FixBug}

\* the coverage reports of a build: none, or a line-rate of 0.40, 0.55, 0.85
MainCoverageReports ==
  {c \in CoverageReports :
     c.exists => c.line_rate * 100 \in {40 * RateDenominator, 55 * RateDenominator,
                                         85 * RateDenominator}}

Environments ==
  [registers_exit : {0, 1}, apidoc_exit : {0, 1}, readme_identical : BOOLEAN,
   sphinx_exit : {0, 1}, index_html_exists : BOOLEAN,
   coverage_html_exists : BOOLEAN]

InitMain ==
  /\ IdleVerify
  /\ dir \in MainDirectories
  /\ repo \in Repositories(dir)
  /\ outFile = Absent
  /\ notesResult = "none"
  /\ lookups = <<>>
  /\ releases = <<>>
  /\ runs = 0
  /\ coverageXml \in MainCoverageReports
  /\ badgeFile = NoBadge
  /\ badgeResult = "none"
  /\ pc = "delete"
  /\ skipCoverage \in BOOLEAN
  /\ env \in Environments
  /\ sphinxHtml \in {{}, {"index.html", "badges", "python_coverage_html"}}
  /\ trace = <<>>
  /\ mainError = "none"

NextMain ==
  \/ MainDelete
  \/ MainGenerateRegisters
  \/ MainGenerateReleaseNotes
  \/ MainGenerateApidoc
  \/ MainGenerateSphinxIndex
  \/ MainBuildSphinx
  \/ MainBuildInformationBadges
  \/ MainBuildPythonCoverageBadge
  \/ MainCopyPythonCoverage

SpecMain == InitMain /\ [][NextMain]_vars

-----------------------------------------------------------------------------
(* The specification of the tests *)

\* what an earlier run of the tests can have left in the project folder
StaleFolder ==
  [files |-> {"test_proj.xpr", BitFile, BinFile, ClockInteraction, TimingSummary},
   log   |-> {ClockCrossingMarker}]

\* the test runner picks a test function; modules and vivado next to the test
\* file are as an earlier run left them, tmp_path is new
InitVerify ==
  /\ IdleNotes
  /\ IdleBadge
  /\ IdleMain
  /\ testCase \in TestCases
  /\ tpc = IF testCase \in BasicProjectTests THEN "setUp" ELSE "test"
  /\ topFile \in {"none", "garbage"}
  /\ folder \in IF testCase \in BasicProjectTests
                THEN {EmptyFolder, StaleFolder} ELSE {EmptyFolder}
  /\ buildCalls = 0
  /\ outcome = NoOutcome
  /\ raised = "none"
  /\ builtOn = NotBuilt
  /\ verdict = "none"

NextVerify ==
  \/ SetUp /\ UNCHANGED <<notesVars, badgeVars, mainVars>>
  \/ TestBuildingArtyz7Project /\ UNCHANGED <<notesVars, badgeVars, mainVars>>
  \/ TestCreateProject /\ UNCHANGED <<notesVars, badgeVars, mainVars>>
  \/ TestSynthProject /\ UNCHANGED <<notesVars, badgeVars, mainVars>>
  \/ TestSynthShouldFail /\ UNCHANGED <<notesVars, badgeVars, mainVars>>
  \/ TestClockCrossingShouldFail /\ UNCHANGED <<notesVars, badgeVars, mainVars>>
  \/ TestBuildProject /\ UNCHANGED <<notesVars, badgeVars, mainVars>>
  \/ TestBadTimingShouldFail /\ UNCHANGED <<notesVars, badgeVars, mainVars>>

SpecVerify == InitVerify /\ [][NextVerify]_vars

-----------------------------------------------------------------------------
(* Properties of the release notes *)

\* get_release_notes_files got as far as yielding: every tag was found
ListBuilt == runs >= 1 /\ notesResult \in {"ok", "file_not_found"}

\* the versioned files of the directory: what the glob finds, except
\* unreleased.rst
VersionedFiles == Glob(dir) \ {UnreleasedNotesFile}

VersionOf(idx) == releases[idx].release.version
GitTagOf(idx) == releases[idx].release.git_tag

\* C1: with unreleased.rst and N versioned files in the directory, the
\* yielded sequence has N+1 entries, "Unreleased" first, then every version
\* exactly once, in strictly descending order of the file name stems.
C1_DescendingByStem ==
  (ListBuilt /\ UnreleasedNotesFile \in DOMAIN dir) =>
    /\ Len(releases) = Cardinality(VersionedFiles) + 1
    /\ VersionOf(1) = UnreleasedVersion
    /\ \A f \in VersionedFiles :
         Cardinality({idx \in 2..Len(releases) :
                        releases[idx].release.release_notes_file = f
                        /\ VersionOf(idx) = Stem(f)}) = 1
    /\ \A idx \in 2..(Len(releases) - 1) : StrLess(VersionOf(idx + 1), VersionOf(idx))

\* the positions of the headings of a document: a non-empty line underlined
\* by a line of as many dashes
HeadingPositions(lines) ==
  {p \in 1..(Len(lines) - 1) :
     Len(lines[p]) > 0 /\ lines[p + 1] = Repeat(45, Len(lines[p]))}

\* the p of HeadingPositions that has idx - 1 headings before it
HeadingPosition(lines, idx) ==
  CHOOSE p \in HeadingPositions(lines) :
    Cardinality({q \in HeadingPositions(lines) : q < p}) = idx - 1

IsDiffLink(line) == StartsWith(line, LinkOpen)

\* C2: every yielded entry but the last carries the git tag of the entry
\* after it as previous release and the document has, in its section, the
\* diff link from that tag to its own; the last entry carries None and its
\* section has no diff link.  The document has no other diff link.  When
\* unreleased.rst is missing the loop stops at the first entry, which carries
\* the git tag of the first versioned file of the list, or None without one.
C2_PreviousReleaseLinks ==
  /\ (runs >= 1 /\ notesResult = "ok") =>
       \A idx \in 1..Len(releases) :
         releases[idx].previous_release_git_tag =
           IF idx = Len(releases) THEN NoTag ELSE SomeTag(GitTagOf(idx + 1))
  /\ (runs >= 1 /\ notesResult = "file_not_found") =>
       /\ Len(releases) = 1
       /\ releases[1].previous_release_git_tag =
            IF VersionedFiles = {} THEN NoTag
            ELSE SomeTag(TagOf(CHOOSE f \in VersionedFiles :
                                 \A g \in VersionedFiles : g = f \/ PathLess(g, f)))
  /\ (runs >= 1 /\ notesResult = "ok") =>
       LET lines == outFile.lines
       IN /\ Cardinality(HeadingPositions(lines)) = Len(releases)
          /\ \A idx \in 1..Len(releases) :
               LET p == HeadingPosition(lines, idx)
               IN /\ lines[p] = Heading(releases[idx].release)
                  /\ IF idx < Len(releases)
                     THEN lines[p + 3] = DiffLink(GitTagOf(idx + 1), GitTagOf(idx))
                     ELSE ~IsDiffLink(lines[p + 3])
          /\ Cardinality({i \in 1..Len(lines) : IsDiffLink(lines[i])})
               = Len(releases) - 1

C2_Witness ==
  /\ runs >= 1 /\ notesResult = "ok"
  /\ Len(releases) = 3
  /\ releases[1].previous_release_git_tag = SomeTag(GitTagOf(2))
  /\ releases[3].previous_release_git_tag = NoTag

\* C3: whatever the directory holds, the list has exactly one entry with
\* version "Unreleased": the first, with git tag "master", the placeholder
\* date and no tag lookup; every other entry has git tag "v" + version.
C3_ExactlyOneUnreleased ==
  ListBuilt =>
    /\ Len(releases) >= 1
    /\ {idx \in 1..Len(releases) : VersionOf(idx) = UnreleasedVersion} = {1}
    /\ GitTagOf(1) = MasterTag
    /\ releases[1].release.date = PlaceholderDate
    /\ releases[1].release.looked_up = <<>>
    /\ \A i \in 1..Len(lookups) : lookups[i] # MasterTag
    /\ \A idx \in 2..Len(releases) : GitTagOf(idx) = TagPrefix \o VersionOf(idx)

\* the part of C3 that does not count the "Unreleased" versions
C3_FirstIsMaster ==
  ListBuilt =>
    /\ Len(releases) >= 1
    /\ {idx \in 1..Len(releases) : GitTagOf(idx) = MasterTag} = {1}
    /\ VersionOf(1) = UnreleasedVersion
    /\ releases[1].release.date = PlaceholderDate
    /\ releases[1].release.looked_up = <<>>
    /\ \A i \in 1..Len(lookups) : lookups[i] # MasterTag
    /\ \A idx \in 2..Len(releases) : GitTagOf(idx) = TagPrefix \o VersionOf(idx)

\* some versioned file's tag is not in the repository
SomeTagMissing == \E f \in VersionedFiles : TagOf(f) \notin DOMAIN repo

\* C4: when the tag of some versioned release cannot be looked up, a call of
\* generate_release_notes ends with the lookup error of the first such
\* release, has looked no tag up twice, and leaves release_notes.rst as it
\* was.
C4_LookupFailureIsFatal ==
  [][ SomeTagMissing =>
        /\ notesResult' = "lookup_error"
        /\ outFile' = outFile
        /\ Len(lookups') >= 1
        /\ \A i, j \in 1..Len(lookups') : i # j => lookups'[i] # lookups'[j]
        /\ \A i \in 1..Len(lookups') :
             (lookups'[i] \notin DOMAIN repo) <=> (i = Len(lookups')) ]_vars

C4_Witness ==
  /\ runs >= 1 /\ notesResult = "lookup_error"
  /\ outFile = FileWith(StaleOutput)
  /\ Len(lookups) = 2
  /\ lookups[1] \in DOMAIN repo

\* C6: a call of generate_release_notes that follows a successful one on the
\* same directory and repository succeeds and leaves release_notes.rst with
\* the same contents, whatever order the glob enumerates the files in.
C6_Idempotent ==
  [][ (runs >= 1 /\ notesResult = "ok") =>
        (notesResult' = "ok" /\ outFile' = outFile) ]_vars

C6_Witness ==
  /\ runs = 2 /\ notesResult = "ok"
  /\ Cardinality(VersionedFiles) >= 2
  /\ outFile.exists

-----------------------------------------------------------------------------
(* Properties of the coverage badge *)

\* p is a nearest integer to 100 * line-rate
NearestPercentage(p, line_rate) ==
  /\ 2 * (p * RateDenominator - 100 * line_rate) <= RateDenominator
  /\ 2 * (100 * line_rate - p * RateDenominator) <= RateDenominator

\* the line-rate is the decimal fraction hundredths / 100
RateIs(hundredths) == coverageXml.line_rate * 100 = hundredths * RateDenominator

Percent(p) == IntToStr(p) \o <<37>>

\* C5: for a coverage report with line-rate r, build_python_coverage_badge
\* works with a percentage p that is a nearest integer to 100 * r; when
\* p <= 50 it fails the assertion and writes no badge, otherwise it writes
\* a badge that shows p%, green exactly when p > 80 and red otherwise.
\* 0.85 gives 85% in green, 0.55 gives 55% in red, 0.40 fails the assertion.
C5_CoverageBadge ==
  (badgeResult # "none" /\ coverageXml.exists) =>
    /\ \E p \in 0..100 :
         /\ NearestPercentage(p, coverageXml.line_rate)
         /\ IF p <= 50
            THEN /\ badgeResult = "AssertionError: Coverage is way low"
                 /\ badgeFile = NoBadge
            ELSE /\ badgeResult = "ok"
                 /\ badgeFile = [exists |-> TRUE, right_text |-> Percent(p),
                                 right_color |-> IF p > 80 THEN "green" ELSE "red"]
    /\ RateIs(85) => (badgeFile.right_text = Percent(85)
                      /\ badgeFile.right_color = "green")
    /\ RateIs(55) => (badgeFile.right_text = Percent(55)
                      /\ badgeFile.right_color = "red")
    /\ RateIs(40) => (badgeResult = "AssertionError: Coverage is way low"
                      /\ badgeFile = NoBadge)

C5_Witness ==
  /\ badgeResult = "ok"
  /\ RateIs(85)
  /\ badgeFile.right_text = <<56, 53, 37>>
  /\ badgeFile.right_color = "green"

-----------------------------------------------------------------------------
(* Properties of main *)

\* the statements of main, in the order main has them
StepOrder ==
  <<"delete", "generate_registers", "generate_release_notes", "generate_apidoc",
    "generate_sphinx_index", "build_sphinx", "build_information_badges",
    "build_python_coverage_badge", "copy_python_coverage_to_html_output">>

CoverageSteps ==
  {"build_python_coverage_badge", "copy_python_coverage_to_html_output"}

OtherSteps == SubSeq(StepOrder, 1, 7)

\* the failure condition of each step, in terms of what the build runs on
FailsAt(step) ==
  CASE step = "generate_registers" -> env.registers_exit # 0
    [] step = "generate_release_notes" ->
         UnreleasedNotesFile \notin DOMAIN dir
         \/ \E f \in Glob(dir) \ {UnreleasedNotesFile} : TagOf(f) \notin DOMAIN repo
    [] step = "generate_apidoc" -> env.apidoc_exit # 0
    [] step = "generate_sphinx_index" -> ~env.readme_identical
    [] step = "build_sphinx" -> env.sphinx_exit # 0 \/ ~env.index_html_exists
    [] step = "build_python_coverage_badge" ->
         ~coverageXml.exists \/ coverageXml.line_rate * 2 <= RateDenominator
    [] step = "copy_python_coverage_to_html_output" -> ~env.coverage_html_exists
    [] OTHER -> FALSE

IsPrefix(s, t) == Len(s) <= Len(t) /\ s = SubSeq(t, 1, Len(s))

Finished == pc \in {"returned", "raised"}

\* the steps of the trace that are not coverage steps
OthersOf(t) == SelectSeq(t, LAMBDA step : step \notin CoverageSteps)

\* how far the other steps get: to the first of them that fails, or through
FailingOthers == {i \in 1..Len(OtherSteps) : FailsAt(OtherSteps[i])}
LastOther ==
  IF FailingOthers = {} THEN Len(OtherSteps)
  ELSE CHOOSE i \in FailingOthers : \A j \in FailingOthers : i <= j

\* C7: the steps run in the order main has them, so the other steps run
\* before any coverage step; how far the other steps get does not depend on
\* --skip-coverage; with the flag no coverage step runs, no coverage report
\* is looked at and main returns after the information badges; without it
\* the badge step follows the information badges, the copy step follows the
\* badge step, and main returns only after both.
C7_SkipCoverageGovernsCoverageSteps ==
  /\ IsPrefix(trace, StepOrder)
  /\ Finished => OthersOf(trace) = SubSeq(OtherSteps, 1, LastOther)
  /\ skipCoverage =>
       /\ \A i \in 1..Len(trace) : trace[i] \notin CoverageSteps
       /\ badgeResult = "none" /\ badgeFile = NoBadge
       /\ "python_coverage_html" \notin sphinxHtml \/ pc = "delete"
       /\ (Finished /\ FailingOthers = {}) => pc = "returned"
  /\ ~skipCoverage =>
       /\ pc = "returned" => trace = StepOrder
       /\ (Finished /\ FailingOthers = {}) =>
            /\ Len(trace) >= 8
            /\ (Len(trace) = 9) <=> ~FailsAt("build_python_coverage_badge")

C7_Witness ==
  /\ skipCoverage
  /\ pc = "returned"
  /\ ~coverageXml.exists
  /\ ~env.coverage_html_exists
  /\ Len(trace) = 7

\* the error each failing step raises
ErrorOf(step) ==
  CASE step = "generate_registers" -> {"CalledProcessError"}
    [] step = "generate_release_notes" -> {"lookup_error", "file_not_found"}
    [] step = "generate_apidoc" -> {"CalledProcessError"}
    [] step = "generate_sphinx_index" -> {"readme.rst differs"}
    [] step = "build_sphinx" -> {"CalledProcessError", "AssertionError: index.html"}
    [] step = "build_python_coverage_badge" ->
         {"AssertionError: Run pytest with coverage",
          "AssertionError: Coverage is way low"}
    [] step = "copy_python_coverage_to_html_output" ->
         {"AssertionError: Run pytest with coverage"}
    [] OTHER -> {}

\* C10: no step of main runs twice; a step whose failure condition holds is
\* the last step that runs, main ends there with that step's error, and main
\* never returns normally after a failed step; an exit code of a command
\* other than 0 is a CalledProcessError, a missing tag a lookup error, a
\* missing coverage report the assertion error of the step that looks for it,
\* with no badge written and no report copied.  After main has returned or
\* raised, nothing runs.
C10_FailureAborts ==
  /\ [] /\ \A i, j \in 1..Len(trace) : i # j => trace[i] # trace[j]
        /\ (pc = "raised") <=> (mainError # "none")
        /\ \A i \in 1..Len(trace) :
             FailsAt(trace[i]) =>
               /\ i = Len(trace)
               /\ pc = "raised"
               /\ mainError \in ErrorOf(trace[i])
        /\ pc = "raised" => FailsAt(trace[Len(trace)])
        /\ (pc = "raised" /\ trace[Len(trace)] \in {"generate_registers", "generate_apidoc"})
             => mainError = "CalledProcessError"
        /\ (pc = "raised" /\ trace[Len(trace)] = "generate_release_notes"
              /\ \E f \in Glob(dir) \ {UnreleasedNotesFile} : TagOf(f) \notin DOMAIN repo)
             => (mainError = "lookup_error" /\ outFile = Absent)
        /\ (~coverageXml.exists /\ "build_python_coverage_badge" \in {trace[i] : i \in 1..Len(trace)})
             => /\ pc = "raised"
                /\ mainError = "AssertionError: Run pytest with coverage"
                /\ badgeFile = NoBadge
                /\ Len(trace) = 8
  /\ [][~Finished]_vars

C10_Witness ==
  /\ pc = "raised"
  /\ ~coverageXml.exists
  /\ mainError = "AssertionError: Run pytest with coverage"
  /\ trace[Len(trace)] = "build_python_coverage_badge"

-----------------------------------------------------------------------------
(* Properties of the tests *)

TestDone == tpc = "done"

\* the classifications, and the tests that accept an outcome as each
Classifications == {"success", "compile_failure", "clock_crossing_failure",
                    "timing_failure"}

Satisfies(class, error, build_folder) ==
  CASE class = "success" ->
         \/ BuildingArtyz7ProjectPasses(error, build_folder)
         \/ SynthProjectPasses(error, build_folder)
         \/ BuildProjectPasses(error, build_folder)
    [] class = "compile_failure" -> SynthShouldFailPasses(error, build_folder)
    [] class = "clock_crossing_failure" ->
         ClockCrossingShouldFailPasses(error, build_folder)
    [] class = "timing_failure" -> BadTimingShouldFailPasses(error, build_folder)

Classes == {class \in Classifications : Satisfies(class, raised, folder)}

ClassOf(test) ==
  CASE test \in {BuildingArtyz7Project, SynthProject, BuildProject} -> "success"
    [] test = SynthShouldFail -> "compile_failure"
    [] test = ClockCrossingShouldFail -> "clock_crossing_failure"
    [] test = BadTimingShouldFail -> "timing_failure"

\* the log holds the clock crossing marker, synth_1 holds both reports and
\* there is no bitstream
ClockCrossingCase ==
  /\ ClockCrossingMarker \in folder.log
  /\ {ClockInteraction, TimingSummary} \subseteq folder.files
  /\ BitFile \notin folder.files

\* C8 as amended: an outcome that satisfies the conditions of success
\* satisfies those of no failure; an outcome whose log holds at most one of
\* the three markers satisfies the conditions of at most one classification,
\* and of exactly one, that of the test, when the test accepts it; a build
\* that exits 0 and leaves the .bit and .bin files and
\* impl_1/hierarchical_utilization.rpt is a success and nothing else; a
\* failed build with the clock crossing marker in the log, both reports in
\* synth_1 and no bitstream is a clock crossing failure, never a success, and
\* a compile failure too exactly when the log also holds the marker of a
\* failed synthesis run.
C8_ClassificationByTests ==
  (TestDone /\ buildCalls = 1) =>
    /\ "success" \in Classes => Classes = {"success"}
    /\ Cardinality(folder.log) <= 1 => Cardinality(Classes) <= 1
    /\ (verdict = "passed" /\ Cardinality(folder.log) <= 1)
         => Classes = {ClassOf(testCase)}
    /\ (outcome.exit_code = 0
          /\ {BitFile, BinFile, ImplUtilization} \subseteq folder.files)
         => Classes = {"success"}
    /\ (outcome.exit_code # 0 /\ ClockCrossingCase) =>
         /\ "clock_crossing_failure" \in Classes
         /\ "success" \notin Classes
         /\ ("compile_failure" \in Classes) <=> (SynthFailedMarker \in folder.log)

\* C8 as stated: no build outcome satisfies the conditions of two
\* classifications; an outcome a test accepts has exactly one; a build that
\* exits 0 and leaves the .bit and .bin files is a success; a build with the
\* clock crossing marker in the log, both reports in synth_1 and no bitstream
\* is a clock crossing failure and nothing else.
C8_ExactlyOneClassification ==
  (TestDone /\ buildCalls = 1) =>
    /\ Cardinality(Classes) <= 1
    /\ verdict = "passed" => Cardinality(Classes) = 1
    /\ (outcome.exit_code = 0 /\ {BitFile, BinFile} \subseteq folder.files)
         => Classes = {"success"}
    /\ ClockCrossingCase => Classes = {"clock_crossing_failure"}

C8_Witness ==
  /\ TestDone
  /\ testCase = ClockCrossingShouldFail
  /\ verdict = "passed"
  /\ outcome.exit_code # 0
  /\ ClockCrossingCase
  /\ folder.log = {ClockCrossingMarker, SynthFailedMarker}
  /\ Classes = {"clock_crossing_failure", "compile_failure"}

\* the parts of C9 that do not count the build calls of a test case: the
\* build is never invoked twice; a build that exits with another code than 0
\* reaches the test as CalledProcessError, and a test that expects the build to
\* fail passes only then; every test of TestBasicProject builds in a project
\* folder that holds only what setUp created.
NoRetryOnFreshProject ==
  /\ buildCalls <= 1
  /\ buildCalls = 1 =>
       /\ builtOn.built
       /\ (outcome.exit_code # 0) <=> (raised = "CalledProcessError")
       /\ testCase \in BasicProjectTests => builtOn = BuiltOn(CreatedProject)
       /\ testCase = BuildingArtyz7Project => builtOn = BuiltOn(EmptyFolder)
  /\ (TestDone /\ verdict = "passed"
        /\ testCase \in {SynthShouldFail, ClockCrossingShouldFail, BadTimingShouldFail})
       => raised = "CalledProcessError"
  /\ TestDone => verdict \in {"passed", "failed"}

\* C9 as amended: the build is invoked exactly once in every test case but
\* test_create_project, which does not invoke it, and the rest of C9.
C9_BuildAtMostOnce ==
  /\ NoRetryOnFreshProject
  /\ TestDone => (buildCalls = 1 <=> testCase # CreateProject)

\* C9 as stated: in every test case the build is invoked exactly once.
C9_BuildExactlyOnce ==
  /\ NoRetryOnFreshProject
  /\ TestDone => buildCalls = 1

C9_Witness ==
  /\ TestDone
  /\ testCase = ClockCrossingShouldFail
  /\ buildCalls = 1
  /\ raised = "CalledProcessError"
  /\ builtOn = BuiltOn(CreatedProject)
  /\ verdict = "passed"

=============================================================================
